---- MODULE Spec2Model ----
(***************************************************************************)
(* A model of the InfinitePager component (src/src/index.tsx): the pan     *)
(* gesture callbacks, the position store (translate), the commit/notify    *)
(* loop (useAnimatedReaction -> runOnJS -> onPageChangeInternal), the      *)
(* imperative API (setPage / incrementPage / decrementPage) behind the     *)
(* first-layout promise, and the arbitration registry (activePagers).      *)
(*                                                                         *)
(* Numbers.  translate is kept in layout units as an integer.  A page      *)
(* position p is kept "scaled": p * pageSize, so that every comparison the *)
(* code makes on initialIndex - translate / pageSize is exact.  A bounce   *)
(* fraction is a pair <<num, den>>.  Gesture samples whose bounced         *)
(* translate is not an integer are not enumerated.                         *)
(***************************************************************************)
EXTENDS Integers, Sequences, FiniteSets, TLC

VARIABLES
    props,          \* pager -> the props / context values it was built with
    pageSize,       \* pager -> pageWidth/pageHeight shared value (0 = no layout yet)
    layoutResolved, \* pager -> onLayoutPromise has been resolved
    translate,      \* pager -> translate.value
    anim,           \* pager -> target of the running withSpring, or NoAnim
    startTranslate, \* pager -> startTranslate.value
    initTouch,      \* pager -> <<initTouchX.value, initTouchY.value>>
    curTouch,       \* pager -> position of the touch in the last sample
    endVelocity,    \* pager -> <<velocityX, velocityY>> of the release, while it ends
    phase,          \* pager -> state of its pan recognizer
    activePagers,   \* registry -> its activePagers.value (sequence of pager ids)
    curIndex,       \* pager -> React state curIndex
    reactPrev,      \* pager -> previous result of the animated reaction (Null first)
    jsQueue,        \* pager -> runOnJS(onPageChangeInternal) calls not yet run
    cbLog,          \* pager -> the last calls of onPageChange: <<pg, curIndex before>>
    pendingSetPage, \* pager -> setPage calls awaiting onLayoutPromise, oldest first
    lastResumed,    \* pager -> the setPage call whose continuation ran in the last step
    gesturesDisabled, \* pager -> the gesturesDisabled prop
    logKeep,        \* number of onPageChange calls cbLog remembers
    pagers,         \* registry -> its pagers.value (sequence of pager ids)
    animCfg,        \* pager -> the config the running withSpring was given
    defaultAnimationConfig \* the object DEFAULT_ANIMATION_CONFIG

vars == <<props, pageSize, layoutResolved, translate, anim, startTranslate,
          initTouch, curTouch, endVelocity, phase, activePagers, curIndex,
          reactPrev, jsQueue, cbLog, pendingSetPage, lastResumed, gesturesDisabled,
          logKeep, pagers, animCfg, defaultAnimationConfig>>

\* Math.abs(crossAxisTranslate) > 10
CrossAxisThreshold == 10

\* flingVelocity = 500
DefaultFlingVelocity == 500

\* pageBuffer = 1
DefaultPageBuffer == 1

\* Bounds of the exploration: calls the JS thread may lag behind, setPage calls
\* that may await the layout, pages translate may travel from the origin.
MaxLag == 1
MaxPending == 2
MaxTravel == 2

\* the largest pageBuffer that is rendered
MaxBuffer == 2

\* previous of the reaction before its first run (null), and the value once set
Null == <<>>
Prev(v) == <<v>>

\* no animation runs on translate; a spring towards target t
NoAnim == <<>>
Spring(t) == <<t>>

Pagers == DOMAIN props

\* the step taken is not the continuation of a setPage
NoneResumed == lastResumed' = [q \in Pagers |-> <<>>]

--------------------------------------------------------------------------
(* Arithmetic helpers *)

Abs(n) == IF n < 0 THEN -n ELSE n

\* JavaScript Math.round(n / d) for d > 0: round half towards +Infinity.
MathRound(n, d) == (2 * n + d) \div (2 * d)

Range(s) == {s[i] : i \in 1..Len(s)}

Filter(s, Keep(_)) == SelectSeq(s, Keep)

KeepLast(s, n) == IF Len(s) <= n THEN s ELSE SubSeq(s, Len(s) - n + 1, Len(s))

\* [...new Set(s)]: the first occurrence of every element, in order
RECURSIVE SetValues(_)
SetValues(s) ==
    IF s = <<>> THEN <<>>
    ELSE LET init == SetValues(SubSeq(s, 1, Len(s) - 1))
             last == s[Len(s)]
         IN  IF last \in Range(init) THEN init ELSE Append(init, last)

--------------------------------------------------------------------------
(* Objects: a JavaScript object with string keys is the set of its
   <<key, value>> properties *)

EmptyObject == {}

Keys(o) == {kv[1] : kv \in o}

\* Object.assign(target, a, b) and { ...a, ...b } (target = {}): the properties
\* of a, then those of b, are written onto target; the result is the content
\* of target afterwards.
ObjectAssign(target, a, b) ==
    LET Over(x, y) == {kv \in x : kv[1] \notin Keys(y)} \cup y
    IN  Over(Over(target, a), b)

\* DEFAULT_ANIMATION_CONFIG as the module creates it
DEFAULT_ANIMATION_CONFIG ==
    {<<"damping", "20">>, <<"mass", "0.2">>, <<"stiffness", "100">>,
     <<"overshootClamping", "false">>, <<"restSpeedThreshold", "0.2">>,
     <<"restDisplacementThreshold", "0.2">>}

\* EMPTY_ANIMATION_CONFIG, the default of the animationConfig prop
EMPTY_ANIMATION_CONFIG == EmptyObject

\* no spring runs, so no config is in use
NoCfg == {}

--------------------------------------------------------------------------
(* The registry scope: InfinitePagerContext and InfinitePagerProvider *)

\* React.createContext({ activePagers, pagers, nestingDepth: -1 }): the value
\* seen outside every provider; registry 0 is the module-level pair of
\* collections.
InfinitePagerContext == [nestingDepth |-> -1, registry |-> 0]

\* the provider if it handed down the collections of its context in every case
InfinitePagerProviderInherit(ctx, own) ==
    [nestingDepth |-> ctx.nestingDepth + 1, registry |-> ctx.registry]

\* InfinitePagerProvider: the value it provides, given the context ctx it is
\* rendered in; own names its rootPagers / rootActivePagers shared values.
InfinitePagerProvider(ctx, own) ==
    LET isRoot == ctx.nestingDepth = -1
    IN  [nestingDepth |-> ctx.nestingDepth + 1,
         registry |-> IF isRoot THEN own ELSE ctx.registry]

\* withWrappedProvider: every pager is rendered inside a provider of its own,
\* which is rendered in the context of the pager's parent (0: no parent).
RECURSIVE ContextOf(_, _)
ContextOf(ps, p) ==
    InfinitePagerProvider(IF ps[p].parent = 0
                          THEN InfinitePagerContext
                          ELSE ContextOf(ps, ps[p].parent), p)

--------------------------------------------------------------------------
(* Values derived from props, context and state *)

\* orientation = vertical ? "vertical" : "horizontal"
Orientation(p) == IF props[p].vertical THEN "vertical" ELSE "horizontal"

\* pagerId = `${orientation}:${nestingDepth}:${Math.random()}`; the three
\* fields the string is built from (split(":") reads the first two back).
PagerId(p) == <<Orientation(p), props[p].nestingDepth, props[p].uid>>

\* activePagers.value / pagers.value of the registry the pager's context holds
ActivePagersOf(p) == activePagers[props[p].registry]
PagersOf(p) == pagers[props[p].registry]

\* v.split(":")[0] and Number(v.split(":")[1]) of a pager id
IdOrientation(v) == v[1]
IdDepth(v) == v[2]

\* isMinIndex / isMaxIndex: curIndex <= minIndex, curIndex >= maxIndex
IsMinIndex(p) == curIndex[p] <= props[p].minIndex
IsMaxIndex(p) == curIndex[p] >= props[p].maxIndex

\* A JavaScript value: a boolean, or a reference to an object.
JsBool(b) == [tag |-> "boolean", b |-> b, ref |-> ""]
JsObject(r) == [tag |-> "object", b |-> TRUE, ref |-> r]
\* ToBoolean: every object is truthy.
Truthy(v) == IF v.tag = "object" THEN TRUE ELSE v.b

\* const isAtEdge = isMinIndex || isMaxIndex: both operands are the derived
\* value objects (not their .value), so || yields the first one, isMinIndex.
IsAtEdge(p) ==
    LET l == JsObject("isMinIndex")
        r == JsObject("isMaxIndex")
    IN  IF Truthy(l) THEN l ELSE r

\* isAtEdgeAnim.value: the derived value returns isAtEdge itself
IsAtEdgeAnim(p) == IsAtEdge(p)

\* isGestureLocked.value without the .filter on the orientation
IsGestureLockedNoFilter(p) ==
    LET isDeepest == \A i \in 1..Len(ActivePagersOf(p)) :
                        IdDepth(ActivePagersOf(p)[i]) <= props[p].nestingDepth
    IN  Len(ActivePagersOf(p)) # 0 /\ ~isDeepest

\* isGestureLocked.value
IsGestureLocked(p) ==
    LET SameOrientation(v) == IdOrientation(v) = Orientation(p)
        filtered == Filter(ActivePagersOf(p), SameOrientation)
        isDeepestInOrientation ==
            \A i \in 1..Len(filtered) : IdDepth(filtered[i]) <= props[p].nestingDepth
    IN  Len(ActivePagersOf(p)) # 0 /\ ~isDeepestInOrientation

\* (page position) * pageSize of a translate: initialIndex + (t / pageSize) * -1
ScaledPage(p, t) == props[p].initialIndex * pageSize[p] - t

\* Math.round(pageAnim.value); pageAnim is only written once pageSize is known
\* and holds initialIndex until then.
RoundedPage(p, t) ==
    IF pageSize[p] = 0 THEN props[p].initialIndex
    ELSE props[p].initialIndex + MathRound(-t, pageSize[p])

--------------------------------------------------------------------------
(* Commit / notify loop *)

\* (ReactionAlways: the reaction if it did not compare cur with prev.)
\* The animated reaction, run after translate became t: prepare returns
\* Math.round(pageAnim.value); react calls runOnJS(onPageChangeInternal)(cur)
\* when cur !== prev.  The result is the queue of calls not yet run on JS.
ReactionAlways(p, t) == Append(jsQueue[p], RoundedPage(p, t))

Reaction(p, t) ==
    LET cur == RoundedPage(p, t)
    IN  IF Prev(cur) # reactPrev[p] THEN Append(jsQueue[p], cur) ELSE jsQueue[p]

\* runOnJS runs the calls in the order they were made.
NextCall(q) == Head(q)
RestCalls(q) == Tail(q)

\* A write to translate.value: it replaces a running animation, and the
\* reaction observes the new value.
Observe(p, t) ==
    /\ reactPrev' = [reactPrev EXCEPT ![p] = Prev(RoundedPage(p, t))]
    /\ jsQueue' = [jsQueue EXCEPT ![p] = Reaction(p, t)]

\* an assignment to translate.value that left a running animation in place
WriteTranslateKeepAnim(p, t) ==
    /\ translate' = [translate EXCEPT ![p] = t]
    /\ UNCHANGED <<anim, animCfg>>
    /\ Observe(p, t)

WriteTranslate(p, t) ==
    /\ translate' = [translate EXCEPT ![p] = t]
    /\ anim' = [anim EXCEPT ![p] = NoAnim]
    /\ animCfg' = [animCfg EXCEPT ![p] = NoCfg]
    /\ Observe(p, t)

\* The reaction's first run, when the mapper is registered: prev is null.
ReactionFirstRun(p) ==
    /\ reactPrev[p] = Null
    /\ Observe(p, translate[p])
    /\ NoneResumed
    /\ UNCHANGED <<props, pageSize, layoutResolved, translate, anim, animCfg,
                   startTranslate, initTouch, curTouch, endVelocity, phase, activePagers,
                   curIndex, cbLog, pendingSetPage, gesturesDisabled, logKeep, pagers, defaultAnimationConfig>>

\* onPageChangeInternal if it called onPageChange and left the state alone
OnPageChangeInternalNoCommit(p) ==
    /\ jsQueue[p] # <<>>
    /\ cbLog' = [cbLog EXCEPT
                   ![p] = KeepLast(Append(@, <<NextCall(jsQueue[p]), curIndex[p]>>),
                                   logKeep)]
    /\ jsQueue' = [jsQueue EXCEPT ![p] = RestCalls(@)]
    /\ NoneResumed
    /\ UNCHANGED <<props, pageSize, layoutResolved, translate, anim, animCfg,
                   startTranslate, initTouch, curTouch, endVelocity, phase,
                   activePagers, curIndex, reactPrev, pendingSetPage,
                   gesturesDisabled, logKeep, pagers, defaultAnimationConfig>>

\* onPageChangeInternal(pg), run on the JS thread: onPageChange?.(pg);
\* setCurIndex(pg)
OnPageChangeInternal(p) ==
    /\ jsQueue[p] # <<>>
    /\ LET pg == NextCall(jsQueue[p])
       IN  /\ cbLog' = [cbLog EXCEPT
                          ![p] = KeepLast(Append(@, <<pg, curIndex[p]>>), logKeep)]
           /\ curIndex' = [curIndex EXCEPT ![p] = pg]
    /\ jsQueue' = [jsQueue EXCEPT ![p] = RestCalls(@)]
    /\ NoneResumed
    /\ UNCHANGED <<props, pageSize, layoutResolved, translate, anim, animCfg,
                   startTranslate, initTouch, curTouch, endVelocity, phase, activePagers,
                   reactPrev, pendingSetPage, gesturesDisabled, logKeep, pagers, defaultAnimationConfig>>

--------------------------------------------------------------------------
(* The pan gesture *)

\* vertical ? v.y : v.x, and the other axis
Primary(p, v) == IF props[p].vertical THEN v[2] ELSE v[1]
Cross(p, v) == IF props[p].vertical THEN v[1] ELSE v[2]

\* evt.translationX / evt.translationY of the current sample
EvtTranslation(p) ==
    <<curTouch[p][1] - initTouch[p][1], curTouch[p][2] - initTouch[p][2]>>

\* !bouncePct
NoBounce(p) == props[p].bouncePct[1] = 0

\* the active set if the pager were left in it
WithPagerKept(p) == ActivePagersOf(p)

\* activePagers.value.slice().filter((id) => id !== pagerId)
WithoutPager(p) ==
    LET Other(pId) == pId # PagerId(p) IN Filter(ActivePagersOf(p), Other)

\* .onBegin
OnBegin(p, x, y) ==
    /\ phase[p] = "idle"
    /\ pageSize[p] > 0
    /\ ~gesturesDisabled[p]
    /\ activePagers' = [activePagers EXCEPT ![props[p].registry] =
                            IF ~Truthy(IsAtEdgeAnim(p))
                            THEN Append(ActivePagersOf(p), PagerId(p))
                            ELSE ActivePagersOf(p)]
    /\ startTranslate' = [startTranslate EXCEPT ![p] = translate[p]]
    /\ initTouch' = [initTouch EXCEPT ![p] = <<x, y>>]
    /\ curTouch' = [curTouch EXCEPT ![p] = <<x, y>>]
    /\ phase' = [phase EXCEPT ![p] = "began"]
    /\ NoneResumed
    /\ UNCHANGED <<endVelocity, props, pageSize, layoutResolved, translate, anim, animCfg, curIndex,
                   reactPrev, jsQueue, cbLog, pendingSetPage, gesturesDisabled,
                   logKeep, pagers, defaultAnimationConfig>>

\* swipingPastEnd of .onTouchesMove for a touch at <<x, y>>
SwipingPastEnd(p, x, y) ==
    LET evtTranslate == Primary(p, <<x, y>>) - Primary(p, initTouch[p])
    IN  \/ (IsMinIndex(p) /\ evtTranslate > 0)
        \/ (IsMaxIndex(p) /\ evtTranslate < 0)

\* shouldFailSelf of .onTouchesMove
ShouldFailSelf(p, x, y) ==
    \/ (NoBounce(p) /\ SwipingPastEnd(p, x, y))
    \/ IsGestureLocked(p)
    \/ gesturesDisabled[p]

\* if (!activePagers.value.includes(pagerId)) push: the pager is pushed on
\* every sample if includes is not asked
MarkedActiveNoIncludes(p) == Append(ActivePagersOf(p), PagerId(p))

\* if (!activePagers.value.includes(pagerId)) { updated.push(pagerId) }
MarkedActive(p) ==
    IF PagerId(p) \notin Range(ActivePagersOf(p))
    THEN Append(ActivePagersOf(p), PagerId(p))
    ELSE ActivePagersOf(p)

\* .onTouchesMove
OnTouchesMove(p, x, y) ==
    /\ phase[p] \in {"began", "moved", "active"}
    /\ IF ShouldFailSelf(p, x, y)
       THEN /\ activePagers' = [activePagers EXCEPT ![props[p].registry] =
                                    IF props[p].debugTag
                                    THEN WithoutPager(p)
                                    ELSE ActivePagersOf(p)]
            \* mgr.fail(): onEnd follows only if the recognizer was active
            /\ phase' = [phase EXCEPT
                           ![p] = IF @ = "active" THEN "failedActive" ELSE "failed"]
       ELSE /\ activePagers' = [activePagers EXCEPT ![props[p].registry] =
                                    MarkedActive(p)]
            /\ phase' = [phase EXCEPT ![p] = "moved"]
    /\ curTouch' = [curTouch EXCEPT ![p] = <<x, y>>]
    /\ NoneResumed
    /\ UNCHANGED <<endVelocity, props, pageSize, layoutResolved, translate, anim, animCfg,
                   startTranslate, initTouch, curIndex, reactPrev, jsQueue,
                   cbLog, pendingSetPage, gesturesDisabled, logKeep, pagers, defaultAnimationConfig>>

\* .onUpdate if no sample counted as a cross-axis swipe
UpdateCrossAxisNever(p) == FALSE

\* isSwipingCrossAxis of .onUpdate
UpdateCrossAxis(p) ==
    LET evtTranslate == Primary(p, EvtTranslation(p))
        crossAxisTranslate == Cross(p, EvtTranslation(p))
    IN  /\ Abs(crossAxisTranslate) > CrossAxisThreshold
        /\ Abs(crossAxisTranslate) > Abs(evtTranslate)

\* overflowTrans of .onUpdate: pageOverflowPct * pageSize.value
OverflowTrans(p, rawVal) ==
    LET page == ScaledPage(p, rawVal)
        referenceVal == IF page < props[p].minIndex * pageSize[p]
                        THEN props[p].minIndex * pageSize[p]
                        ELSE props[p].maxIndex * pageSize[p]
    IN  referenceVal - page

\* page >= minIndexAnim.value && page <= maxIndexAnim.value
InRange(p, rawVal) ==
    /\ ScaledPage(p, rawVal) >= props[p].minIndex * pageSize[p]
    /\ ScaledPage(p, rawVal) <= props[p].maxIndex * pageSize[p]

\* bounceTrans = pageOverflowPct * (bouncePct * pageSize.value)
BounceTrans(p, rawVal) ==
    (OverflowTrans(p, rawVal) * props[p].bouncePct[1]) \div props[p].bouncePct[2]

\* the bounced translate is a value of the integer grid
BounceExact(p, rawVal) ==
    InRange(p, rawVal)
    \/ (OverflowTrans(p, rawVal) * props[p].bouncePct[1]) % props[p].bouncePct[2] = 0

\* the value .onUpdate would write if the candidate were not clamped
UpdatedTranslateNoClamp(p, rawVal) == rawVal

\* the value .onUpdate writes to translate for rawVal = startTranslate + evtTranslate
UpdatedTranslate(p, rawVal) ==
    IF InRange(p, rawVal)
    THEN rawVal
    ELSE LET clampedVal == rawVal - OverflowTrans(p, rawVal)
         IN  clampedVal + BounceTrans(p, rawVal)

\* .onUpdate
OnUpdate(p) ==
    /\ phase[p] = "moved"
    /\ phase' = [phase EXCEPT ![p] = "active"]
    /\ IF IsGestureLocked(p) \/ UpdateCrossAxis(p)
       THEN UNCHANGED <<translate, anim, animCfg, reactPrev, jsQueue>>
       ELSE LET rawVal == startTranslate[p] + Primary(p, EvtTranslation(p))
            IN  /\ BounceExact(p, rawVal)
                /\ Abs(UpdatedTranslate(p, rawVal)) <= MaxTravel * pageSize[p]
                /\ WriteTranslate(p, UpdatedTranslate(p, rawVal))
                /\ Len(jsQueue'[p]) <= MaxLag
    /\ NoneResumed
    /\ UNCHANGED <<props, pageSize, layoutResolved, startTranslate, initTouch,
                   curTouch, endVelocity, activePagers, curIndex, cbLog, pendingSetPage,
                   gesturesDisabled, logKeep, pagers, defaultAnimationConfig>>

\* isSwipingCrossAxis of .onEnd (no absolute threshold here)
EndCrossAxis(p) ==
    Abs(Cross(p, EvtTranslation(p))) > Abs(Primary(p, EvtTranslation(p)))

\* isFling of .onEnd if the lock were not looked at
IsFlingIgnoringLock(p, v) ==
    IF EndCrossAxis(p) THEN FALSE ELSE Abs(v) > props[p].flingVelocity

\* isFling of .onEnd for the release velocity v on the primary axis
IsFling(p, v) ==
    IF IsGestureLocked(p) \/ EndCrossAxis(p)
    THEN FALSE
    ELSE Abs(v) > props[p].flingVelocity

\* 2 * velocityModifier of .onEnd: pageSize / 2 for a fling, negated for v < 0
VelocityModifier2(p, v) ==
    LET m == IF IsFling(p, v) THEN pageSize[p] ELSE 0
    IN  IF v < 0 THEN -m ELSE m

\* page of .onEnd: the settle target, clamped into [minIndex, maxIndex]
EndPage(p, v) ==
    LET page == props[p].initialIndex
                  + (-1) * MathRound(2 * translate[p] + VelocityModifier2(p, v),
                                     2 * pageSize[p])
        atLeastMin == IF page < props[p].minIndex THEN props[p].minIndex ELSE page
    IN  IF atLeastMin > props[p].maxIndex THEN props[p].maxIndex ELSE atLeastMin

\* -(page - initialIndex) * pageSize.value
PageTranslate(p, page) == -(page - props[p].initialIndex) * pageSize[p]

\* the first argument of Object.assign in .onEnd: a fresh {} (the variant:
\* DEFAULT_ANIMATION_CONFIG itself)
EndAssignOntoDefaults == "DEFAULT_ANIMATION_CONFIG"
EndAssignTarget == "{}"

\* the content of the object that is assigned onto
TargetObject(target) ==
    IF target = "{}" THEN EmptyObject ELSE defaultAnimationConfig

\* animCfg of .onEnd: Object.assign({}, DEFAULT_ANIMATION_CONFIG, animCfgVal.value)
EndAnimCfg(p) ==
    ObjectAssign(TargetObject(EndAssignTarget), defaultAnimationConfig,
                 props[p].animationConfig)

\* DEFAULT_ANIMATION_CONFIG after Object.assign has written onto its target
DefaultsAfterAssign(target, assigned) ==
    IF target = "{}" THEN defaultAnimationConfig ELSE assigned

\* .onEnd: translate.value = withSpring(target, animCfg)
OnEnd(p, vx, vy) ==
    /\ phase[p] \in {"active", "failedActive"}
    /\ animCfg' = [animCfg EXCEPT ![p] = EndAnimCfg(p)]
    /\ defaultAnimationConfig' = DefaultsAfterAssign(EndAssignTarget, EndAnimCfg(p))
    /\ anim' = [anim EXCEPT
                 ![p] = Spring(PageTranslate(p, EndPage(p, Primary(p, <<vx, vy>>))))]
    /\ phase' = [phase EXCEPT ![p] = "ended"]
    /\ endVelocity' = [endVelocity EXCEPT ![p] = <<vx, vy>>]
    /\ NoneResumed
    /\ UNCHANGED <<props, pageSize, layoutResolved, translate, startTranslate,
                   initTouch, curTouch, activePagers, curIndex, reactPrev,
                   jsQueue, cbLog, pendingSetPage, gesturesDisabled, logKeep, pagers>>

\* .onFinalize
OnFinalize(p) ==
    /\ phase[p] \in {"began", "moved", "failed", "ended"}
    /\ activePagers' = [activePagers EXCEPT ![props[p].registry] = WithoutPager(p)]
    /\ phase' = [phase EXCEPT ![p] = "idle"]
    /\ curTouch' = [curTouch EXCEPT ![p] = <<0, 0>>]
    /\ endVelocity' = [endVelocity EXCEPT ![p] = <<0, 0>>]
    /\ NoneResumed
    /\ UNCHANGED <<props, pageSize, layoutResolved, translate, anim, animCfg,
                   startTranslate, initTouch, curIndex, reactPrev,
                   jsQueue, cbLog, pendingSetPage, gesturesDisabled, logKeep, pagers, defaultAnimationConfig>>

\* The positions a spring from translate to its target may show on a frame
\* before it comes to rest: the half pages strictly between the two.
SpringFrames(p) ==
    LET target == anim[p][1]
        lo == IF translate[p] < target THEN translate[p] ELSE target
        hi == IF translate[p] < target THEN target ELSE translate[p]
    IN  {t \in (lo + 1)..(hi - 1) : (2 * t) % pageSize[p] = 0}

\* One frame of withSpring: translate moves towards the target, or rests on it.
SpringStep(p) ==
    /\ anim[p] # NoAnim
    /\ \/ \E t \in SpringFrames(p) :
            /\ translate' = [translate EXCEPT ![p] = t]
            /\ Observe(p, t)
            /\ UNCHANGED <<anim, animCfg>>
       \/ /\ translate' = [translate EXCEPT ![p] = anim[p][1]]
          /\ Observe(p, anim[p][1])
          /\ anim' = [anim EXCEPT ![p] = NoAnim]
          /\ animCfg' = [animCfg EXCEPT ![p] = NoCfg]
    /\ Len(jsQueue'[p]) <= MaxLag
    /\ NoneResumed
    /\ UNCHANGED <<props, pageSize, layoutResolved, startTranslate, initTouch,
                   curTouch, endVelocity, phase, activePagers, curIndex, cbLog,
                   pendingSetPage, gesturesDisabled, logKeep, pagers, defaultAnimationConfig>>

--------------------------------------------------------------------------
(* Layout and the imperative API *)

\* onLayout: pageWidth.value / pageHeight.value are set and onLayoutResolve is
\* called with the size on the pager's axis.
OnLayout(p, size) ==
    /\ ~layoutResolved[p]
    /\ pageSize' = [pageSize EXCEPT ![p] = size]
    /\ layoutResolved' = [layoutResolved EXCEPT ![p] = TRUE]
    /\ NoneResumed
    /\ UNCHANGED <<props, translate, anim, animCfg, startTranslate, initTouch, curTouch, endVelocity,
                   phase, activePagers, curIndex, reactPrev, jsQueue, cbLog,
                   pendingSetPage, gesturesDisabled, logKeep, pagers, defaultAnimationConfig>>

\* A call of setPage: it suspends on `await onLayoutPromise`.
Call(index, animated, via, early) ==
    [index |-> index, animated |-> animated, via |-> via, beforeLayout |-> early]

Suspend(p, call) ==
    /\ Len(pendingSetPage[p]) < MaxPending
    /\ pendingSetPage' = [pendingSetPage EXCEPT ![p] = Append(@, call)]
    /\ NoneResumed
    /\ UNCHANGED <<props, pageSize, layoutResolved, translate, anim, animCfg,
                   startTranslate, initTouch, curTouch, endVelocity, phase, activePagers,
                   curIndex, reactPrev, jsQueue, cbLog, gesturesDisabled, logKeep, pagers, defaultAnimationConfig>>

SetPage(p, index, animated) ==
    Suspend(p, Call(index, animated, "setPage", ~layoutResolved[p]))

\* incrementPage / decrementPage: setPage(curIndexRef.current +- 1, options)
IncrementPage(p, animated) ==
    Suspend(p, Call(curIndex[p] + 1, animated, "incrementPage", ~layoutResolved[p]))

DecrementPage(p, animated) ==
    Suspend(p, Call(curIndex[p] - 1, animated, "decrementPage", ~layoutResolved[p]))

\* index < minIndex alone: setPage if only the lower bound were tested
OutOfRangeBelowOnly(p, index) == index < props[p].minIndex

\* index < minIndex || index > maxIndex
OutOfRange(p, index) == index < props[p].minIndex \/ index > props[p].maxIndex

\* updatedTranslate = index * pSize * -1 + initialIndex * pSize
UpdatedTranslateOf(p, index) ==
    index * pageSize[p] * (-1) + props[p].initialIndex * pageSize[p]

\* Promise continuations run in the order the awaits were made.
NewestPending(q) == q[Len(q)]
OldestPending(q) == Head(q)
Resumed(q) == OldestPending(q)
WithoutResumed(q) == IF Resumed(q) = Head(q) THEN Tail(q) ELSE SubSeq(q, 1, Len(q) - 1)

\* animCfg of setPage: { ...DEFAULT_ANIMATION_CONFIG, ...animCfgVal.value }
SetPageAnimCfg(p) ==
    ObjectAssign(EmptyObject, defaultAnimationConfig, props[p].animationConfig)

\* The continuation of a suspended setPage, once the promise resolved.
\* (pSize = pageSize.value || layoutPageSize: both are the laid out size.)
SetPageResume(p) ==
    /\ layoutResolved[p]
    /\ pendingSetPage[p] # <<>>
    /\ pendingSetPage' = [pendingSetPage EXCEPT ![p] = WithoutResumed(@)]
    /\ lastResumed' = [lastResumed EXCEPT ![p] = <<Resumed(pendingSetPage[p])>>]
    /\ LET call == Resumed(pendingSetPage[p])
       IN  IF OutOfRange(p, call.index)
           THEN UNCHANGED <<translate, anim, animCfg, reactPrev, jsQueue>>
           ELSE IF call.animated
                THEN /\ anim' = [anim EXCEPT
                                   ![p] = Spring(UpdatedTranslateOf(p, call.index))]
                     /\ animCfg' = [animCfg EXCEPT ![p] = SetPageAnimCfg(p)]
                     /\ UNCHANGED <<translate, reactPrev, jsQueue>>
                ELSE WriteTranslate(p, UpdatedTranslateOf(p, call.index))
    /\ Len(jsQueue'[p]) <= MaxLag
    /\ UNCHANGED <<props, pageSize, layoutResolved, startTranslate, initTouch,
                   curTouch, endVelocity, phase, activePagers, curIndex, cbLog,
                   gesturesDisabled, logKeep, pagers, defaultAnimationConfig>>

\* A write to the shared translate by whoever supplied syncNode
\* (translate = syncNode || _translate), once the pager is mounted and laid out.
SyncNodeWrite(p, t) ==
    /\ layoutResolved[p]
    /\ reactPrev[p] # Null
    /\ WriteTranslate(p, t)
    /\ NoneResumed
    /\ UNCHANGED <<props, pageSize, layoutResolved, startTranslate, initTouch,
                   curTouch, endVelocity, phase, activePagers, curIndex, cbLog,
                   pendingSetPage, gesturesDisabled, logKeep, pagers, defaultAnimationConfig>>

\* min <= initialIndex - t / pageSize <= max
PageInBounds(p, t) ==
    /\ props[p].minIndex * pageSize[p] <= props[p].initialIndex * pageSize[p] - t
    /\ props[p].initialIndex * pageSize[p] - t <= props[p].maxIndex * pageSize[p]

--------------------------------------------------------------------------
(* The render window *)

\* pageIndices of a pager with props r and committed index cur:
\* [...Array(pageBuffer * 2 + 1)].map((_, i) => curIndex - i), the offset
\* i - pageBuffer left out
PageIndicesNoOffset(r, cur) ==
    [j \in 1..(r.pageBuffer * 2 + 1) |-> cur - (j - 1)]

\* pageIndices: [...Array(pageBuffer * 2 + 1)].map((_, i) => curIndex - (i - pageBuffer))
PageIndices(r, cur) ==
    [j \in 1..(r.pageBuffer * 2 + 1) |->
        LET i == j - 1
            bufferIndex == i - r.pageBuffer
        IN  cur - bufferIndex]

\* PageWrapper if it did not look for a missing page source
PageWrapperNoThrow(r, index, isActive) ==
    [index |-> index, isActive |-> isActive,
     warned |-> r.PageComponent /\ r.renderPage,
     thrown |-> FALSE,
     content |-> IF r.PageComponent THEN "PageComponent" ELSE "renderPage"]

\* PageWrapper: the construction of the page for index; console.warn when
\* both sources are defined, throw when neither is, else the element with
\* PageComponent ? <PageComponent/> : renderPage?.()
PageWrapper(r, index, isActive) ==
    [index |-> index, isActive |-> isActive,
     warned |-> r.PageComponent /\ r.renderPage,
     thrown |-> ~r.PageComponent /\ ~r.renderPage,
     content |-> IF ~r.PageComponent /\ ~r.renderPage THEN "none"
                 ELSE IF r.PageComponent THEN "PageComponent" ELSE "renderPage"]

\* the pages InfinitePager renders: one PageWrapper per index of pageIndices,
\* isActive = (pageIndex === curIndex)
RenderedPages(r, cur) ==
    [j \in 1..Len(PageIndices(r, cur)) |->
        PageWrapper(r, PageIndices(r, cur)[j], PageIndices(r, cur)[j] = cur)]

\* the render of the pager throws: the pager is never mounted
RenderThrows(r, cur) ==
    \E j \in 1..Len(RenderedPages(r, cur)) : RenderedPages(r, cur)[j].thrown

\* the pager was constructed and is on screen
Constructed(p) == ~RenderThrows(props[p], curIndex[p])

\* the registries the pagers of ps use
Registries(ps) == {ContextOf(ps, p).registry : p \in DOMAIN ps}

\* the registration effect: new Set(pagers.value), add(pagerId), spread
RegisterEffect(s, id) ==
    IF id \in Range(SetValues(s)) THEN SetValues(s) ELSE Append(SetValues(s), id)

\* its cleanup: new Set(pagers.value), delete(pagerId), spread
RegisterCleanup(s, id) ==
    LET Other(v) == v # id IN Filter(SetValues(s), Other)

\* pagerId of pager p with props ps[p], before props is set
PagerIdOf(ps, p) ==
    <<IF ps[p].vertical THEN "vertical" ELSE "horizontal",
      ContextOf(ps, p).nestingDepth, ps[p].uid>>

\* pagers after the registration effects of the pagers n, n - 1, .., 1 have
\* run (the effect of a child runs before that of its parent)
RECURSIVE RegisteredAfterMount(_, _, _)
RegisteredAfterMount(ps, n, reg) ==
    IF n = 0 THEN reg
    ELSE RegisteredAfterMount(ps, n - 1,
            [reg EXCEPT ![ContextOf(ps, n).registry] =
                            RegisterEffect(@, PagerIdOf(ps, n))])

--------------------------------------------------------------------------
(* Mounting and unmounting *)

\* the pager's registration effect has run and its cleanup has not
IsMounted(p) == PagerId(p) \in Range(PagersOf(p))

\* q is p or is rendered inside p
RECURSIVE IsInside(_, _)
IsInside(q, p) ==
    q = p \/ (props[q].parent # 0 /\ IsInside(props[q].parent, p))

\* the cleanups of the registration effects of the pagers inside p, run one
\* after the other on the pagers of a registry
RECURSIVE CleanedUp(_, _)
CleanedUp(s, qs) ==
    IF qs = {} THEN s
    ELSE LET q == CHOOSE q \in qs : TRUE
         IN  CleanedUp(RegisterCleanup(s, PagerId(q)), qs \ {q})

\* the active set after the Finalize of the gestures of the pagers qs
RECURSIVE Finalized(_, _)
Finalized(s, qs) ==
    IF qs = {} THEN s
    ELSE LET q == CHOOSE q \in qs : TRUE
             Other(id) == id # PagerId(q)
         IN  Finalized(Filter(s, Other), qs \ {q})

\* Pager p is unmounted, and with it the pagers inside it: the cleanup of each
\* registration effect runs.  The component has no other teardown; whether
\* the gesture library still delivers onFinalize to a recognizer whose view
\* is being removed is not decided by the component (finalizeDelivered).
\* No callback of an unmounted pager runs afterwards.
Unmount(p, finalizeDelivered) ==
    /\ IsMounted(p)
    /\ LET gone == {q \in Pagers : IsInside(q, p) /\ IsMounted(q)}
       IN  /\ pagers' = [pagers EXCEPT ![props[p].registry] = CleanedUp(@, gone)]
           /\ activePagers' = [activePagers EXCEPT ![props[p].registry] =
                                   IF finalizeDelivered THEN Finalized(@, gone) ELSE @]
    /\ NoneResumed
    /\ UNCHANGED <<props, pageSize, layoutResolved, translate, anim, animCfg,
                   startTranslate, initTouch, curTouch, endVelocity, phase,
                   curIndex, reactPrev, jsQueue, cbLog, pendingSetPage,
                   gesturesDisabled, logKeep, defaultAnimationConfig>>

\* The registration effect of a mounted pager runs again (React runs the
\* cleanup, then the effect): useEffect(..., [pagerId, pagers]).
EffectRerun(p) ==
    /\ IsMounted(p)
    /\ pagers' = [pagers EXCEPT ![props[p].registry] =
                      RegisterEffect(RegisterCleanup(@, PagerId(p)), PagerId(p))]
    /\ NoneResumed
    /\ UNCHANGED <<props, pageSize, layoutResolved, translate, anim, animCfg,
                   startTranslate, initTouch, curTouch, endVelocity, phase,
                   activePagers, curIndex, reactPrev, jsQueue, cbLog,
                   pendingSetPage, gesturesDisabled, logKeep,
                   defaultAnimationConfig>>

--------------------------------------------------------------------------
(* Initial states and next-state relations *)

\* The state after the first render of the pagers of ps (a function from
\* pagers to props) and after their mount effects: useSharedValue / useState
\* initial values.  No effect runs when the render has thrown.
Mounted(ps, keep) ==
    /\ props = [p \in DOMAIN ps |-> ps[p] @@ ContextOf(ps, p)]
    /\ pagers = IF \E p \in DOMAIN ps : RenderThrows(ps[p], ps[p].initialIndex)
                THEN [r \in Registries(ps) |-> <<>>]
                ELSE RegisteredAfterMount(ps, Cardinality(DOMAIN ps),
                                          [r \in Registries(ps) |-> <<>>])
    /\ animCfg = [p \in DOMAIN ps |-> NoCfg]
    /\ defaultAnimationConfig = DEFAULT_ANIMATION_CONFIG
    /\ pageSize = [p \in DOMAIN ps |-> 0]
    /\ layoutResolved = [p \in DOMAIN ps |-> FALSE]
    /\ translate = [p \in DOMAIN ps |-> 0]
    /\ anim = [p \in DOMAIN ps |-> NoAnim]
    /\ startTranslate = [p \in DOMAIN ps |-> 0]
    /\ initTouch = [p \in DOMAIN ps |-> <<0, 0>>]
    /\ curTouch = [p \in DOMAIN ps |-> <<0, 0>>]
    /\ endVelocity = [p \in DOMAIN ps |-> <<0, 0>>]
    /\ phase = [p \in DOMAIN ps |-> "idle"]
    /\ activePagers = [r \in Registries(ps) |-> <<>>]
    /\ curIndex = [p \in DOMAIN ps |-> ps[p].initialIndex]
    /\ reactPrev = [p \in DOMAIN ps |-> Null]
    /\ jsQueue = [p \in DOMAIN ps |-> <<>>]
    /\ cbLog = [p \in DOMAIN ps |-> <<>>]
    /\ pendingSetPage = [p \in DOMAIN ps |-> <<>>]
    /\ lastResumed = [p \in DOMAIN ps |-> <<>>]
    /\ gesturesDisabled = [p \in DOMAIN ps |-> FALSE]
    /\ logKeep = keep

\* Props of a pager and the pager it is rendered in (parent, 0 for none); what
\* is not listed has the default of the component, and a renderPage function
\* is supplied (PageComponent, renderPage: the prop is defined).
Props(vertical, parent, uid, minIndex, maxIndex, initialIndex, bouncePct, debugTag) ==
    [vertical |-> vertical, parent |-> parent, uid |-> uid,
     minIndex |-> minIndex, maxIndex |-> maxIndex, initialIndex |-> initialIndex,
     bouncePct |-> bouncePct, debugTag |-> debugTag,
     flingVelocity |-> DefaultFlingVelocity,
     animationConfig |-> EMPTY_ANIMATION_CONFIG,
     pageBuffer |-> DefaultPageBuffer,
     PageComponent |-> FALSE, renderPage |-> TRUE]

\* The page size the layout reports
LayoutSizes == {300}

\* Bounce fractions: 0 (the default), 0.3 and 1
BouncePcts == {<<0, 1>>, <<3, 10>>, <<1, 1>>}

\* Touch samples of a drag that begins at <<0, 0>>, and release velocities
MovePts == {<<-300, 0>>, <<-50, 0>>, <<300, 0>>, <<-50, 60>>}
Velocities == {<<-600, 0>>, <<0, 0>>, <<600, 0>>}

\* One horizontal pager over pages 0..2.
Init ==
    \E b \in BouncePcts :
        Mounted([p \in {1} |-> Props(FALSE, 0, 1, 0, 2, 1, b, FALSE)], 1)

Next ==
    \/ \E p \in Pagers, size \in LayoutSizes : OnLayout(p, size)
    \/ \E p \in Pagers : ReactionFirstRun(p)
    \/ \E p \in Pagers : OnPageChangeInternal(p)
    \/ \E p \in Pagers : OnBegin(p, 0, 0)
    \/ \E p \in Pagers, pt \in MovePts : OnTouchesMove(p, pt[1], pt[2])
    \/ \E p \in Pagers : OnUpdate(p)
    \/ \E p \in Pagers, v \in Velocities : OnEnd(p, v[1], v[2])
    \/ \E p \in Pagers : OnFinalize(p)
    \/ \E p \in Pagers : SpringStep(p)

Spec == Init /\ [][Next]_vars

\* Two nested pagers sharing one registry: a horizontal pager over pages 0..2
\* and, inside one of its pages (parent 1, so depth 1), a pager that is
\* horizontal or vertical.
NestPts == {<<-50, -50>>}
NestVelocities == {<<-600, -600>>, <<500, 500>>}

InitNest ==
    \E innerVertical \in BOOLEAN :
        Mounted(1 :> Props(FALSE, 0, 1, 0, 2, 1, <<0, 1>>, FALSE)
                @@ 2 :> Props(innerVertical, 1, 2, 0, 2, 1, <<0, 1>>, FALSE), 1)

NextNest ==
    \/ \E p \in Pagers, size \in LayoutSizes : OnLayout(p, size)
    \/ \E p \in Pagers : ReactionFirstRun(p)
    \/ \E p \in Pagers : OnPageChangeInternal(p)
    \/ \E p \in Pagers : OnBegin(p, 0, 0)
    \/ \E p \in Pagers, pt \in NestPts : OnTouchesMove(p, pt[1], pt[2])
    \/ \E p \in Pagers : OnUpdate(p)
    \/ \E p \in Pagers, v \in NestVelocities : OnEnd(p, v[1], v[2])
    \/ \E p \in Pagers : OnFinalize(p)
    \/ \E p \in Pagers : SpringStep(p)

SpecNest == InitNest /\ [][NextNest]_vars

\* One horizontal pager over pages 1..3, mounted on page 2 and driven through
\* the imperative API.
SetPageArgs == {3, 10}

InitApi == Mounted([p \in {1} |-> Props(FALSE, 0, 1, 1, 3, 2, <<0, 1>>, FALSE)], 1)

NextApi ==
    \/ \E p \in Pagers, size \in LayoutSizes : OnLayout(p, size)
    \/ \E p \in Pagers : ReactionFirstRun(p)
    \/ \E p \in Pagers : OnPageChangeInternal(p)
    \/ \E p \in Pagers, i \in SetPageArgs, a \in BOOLEAN : SetPage(p, i, a)
    \/ \E p \in Pagers, a \in BOOLEAN : IncrementPage(p, a)
    \/ \E p \in Pagers, a \in BOOLEAN : DecrementPage(p, a)
    \/ \E p \in Pagers : SetPageResume(p)
    \/ \E p \in Pagers : SpringStep(p)

SpecApi == InitApi /\ [][NextApi]_vars

\* One horizontal pager over pages 0..5 whose translate is driven from its
\* initial page towards page 5 in steps of less than one page.
SweepSizes == {200, 300}
SweepSteps == {50, 100, 150, 200, 250}

InitSweep ==
    \E i \in 0..1 :
        Mounted([p \in {1} |-> Props(FALSE, 0, 1, 0, 5, i, <<0, 1>>, FALSE)], 7)

NextSweep ==
    \/ \E p \in Pagers, size \in SweepSizes : OnLayout(p, size)
    \/ \E p \in Pagers : ReactionFirstRun(p)
    \/ \E p \in Pagers : OnPageChangeInternal(p)
    \/ \E p \in Pagers, d \in SweepSteps :
          /\ d < pageSize[p]
          /\ PageInBounds(p, translate[p] - d)
          /\ SyncNodeWrite(p, translate[p] - d)

SpecSweep == InitSweep /\ [][NextSweep]_vars

\* One horizontal pager over pages 0..5 with a pageBuffer of 0..MaxBuffer and
\* any combination of PageComponent and renderPage; translate is driven as in
\* the sweep while the pager is on screen.
InitWindow ==
    \E r \in 0..MaxBuffer, pc \in BOOLEAN, rp \in BOOLEAN :
        Mounted([p \in {1} |->
                    [Props(FALSE, 0, 1, 0, 5, 1, <<0, 1>>, FALSE)
                        EXCEPT !.pageBuffer = r, !.PageComponent = pc,
                               !.renderPage = rp]], 1)

NextWindow ==
    \/ \E p \in Pagers, size \in LayoutSizes : Constructed(p) /\ OnLayout(p, size)
    \/ \E p \in Pagers : Constructed(p) /\ ReactionFirstRun(p)
    \/ \E p \in Pagers : Constructed(p) /\ OnPageChangeInternal(p)
    \/ \E p \in Pagers, d \in SweepSteps :
          /\ Constructed(p)
          /\ d < pageSize[p]
          /\ PageInBounds(p, translate[p] - d)
          /\ SyncNodeWrite(p, translate[p] - d)

SpecWindow == InitWindow /\ [][NextWindow]_vars

\* Two independent trees: pager 1 with pager 2 nested in it, and pager 3 with
\* pager 4 nested in it; all horizontal, pages 0..2.  Touches only (no
\* translate is moved).
InitTrees ==
    Mounted(1 :> Props(FALSE, 0, 1, 0, 2, 1, <<0, 1>>, FALSE)
            @@ 2 :> Props(FALSE, 1, 2, 0, 2, 1, <<0, 1>>, FALSE)
            @@ 3 :> Props(FALSE, 0, 3, 0, 2, 1, <<0, 1>>, FALSE)
            @@ 4 :> Props(FALSE, 3, 4, 0, 2, 1, <<0, 1>>, FALSE), 1)

NextTrees ==
    \/ \E p \in Pagers, size \in LayoutSizes : OnLayout(p, size)
    \/ \E p \in Pagers : OnBegin(p, 0, 0)
    \/ \E p \in Pagers, pt \in NestPts : OnTouchesMove(p, pt[1], pt[2])
    \/ \E p \in Pagers : OnFinalize(p)

SpecTrees == InitTrees /\ [][NextTrees]_vars

\* Two nested pagers, the outer one horizontal, that receive touches and may
\* be unmounted.
InitMount ==
    \E innerVertical \in BOOLEAN :
        Mounted(1 :> Props(FALSE, 0, 1, 0, 2, 1, <<0, 1>>, FALSE)
                @@ 2 :> Props(innerVertical, 1, 2, 0, 2, 1, <<0, 1>>, FALSE), 1)

NextMount ==
    \/ \E p \in Pagers, size \in LayoutSizes : IsMounted(p) /\ OnLayout(p, size)
    \/ \E p \in Pagers : IsMounted(p) /\ OnBegin(p, 0, 0)
    \/ \E p \in Pagers, pt \in NestPts :
          IsMounted(p) /\ OnTouchesMove(p, pt[1], pt[2])
    \/ \E p \in Pagers : IsMounted(p) /\ OnFinalize(p)
    \/ \E p \in Pagers : EffectRerun(p)
    \/ \E p \in Pagers, finalizeDelivered \in BOOLEAN : Unmount(p, finalizeDelivered)

SpecMount == InitMount /\ [][NextMount]_vars

\* Two nested horizontal pagers with narrow pages, dragged one page along the
\* axis, mostly across it, and slightly across it (below the threshold);
\* gestures are finalized without a release animation.
CrossSizes == {20}
CrossPts == {<<-20, 0>>, <<-4, 60>>, <<-5, 8>>}

InitCross ==
    Mounted(1 :> Props(FALSE, 0, 1, 0, 2, 1, <<0, 1>>, FALSE)
            @@ 2 :> Props(FALSE, 1, 2, 0, 2, 1, <<0, 1>>, FALSE), 1)

NextCross ==
    \/ \E p \in Pagers, size \in CrossSizes : OnLayout(p, size)
    \/ \E p \in Pagers : ReactionFirstRun(p)
    \/ \E p \in Pagers : OnPageChangeInternal(p)
    \/ \E p \in Pagers : OnBegin(p, 0, 0)
    \/ \E p \in Pagers, pt \in CrossPts : OnTouchesMove(p, pt[1], pt[2])
    \/ \E p \in Pagers : OnUpdate(p)
    \/ \E p \in Pagers : OnFinalize(p)

SpecCross == InitCross /\ [][NextCross]_vars

\* Two nested horizontal pagers with narrow pages, released with and
\* without a fling; the inner pager bounces or not and overrides two keys of
\* the spring configuration.
EndPts == {<<20, 0>>}
EndVelocities == {<<-600, 0>>, <<0, 0>>, <<600, 0>>}
EndBouncePcts == {<<0, 1>>, <<1, 1>>}
SlowConfig == {<<"damping", "50">>, <<"overshootClamping", "true">>}

InitEnd ==
    \E b \in EndBouncePcts :
        Mounted(1 :> Props(FALSE, 0, 1, 0, 2, 1, <<0, 1>>, FALSE)
                @@ 2 :> [Props(FALSE, 1, 2, 0, 2, 1, b, FALSE)
                            EXCEPT !.animationConfig = SlowConfig], 1)

NextEnd ==
    \/ \E p \in Pagers, size \in CrossSizes : OnLayout(p, size)
    \/ \E p \in Pagers : ReactionFirstRun(p)
    \/ \E p \in Pagers : OnPageChangeInternal(p)
    \/ \E p \in Pagers : OnBegin(p, 0, 0)
    \/ \E p \in Pagers, pt \in EndPts : OnTouchesMove(p, pt[1], pt[2])
    \/ \E p \in Pagers : OnUpdate(p)
    \/ \E p \in Pagers, v \in EndVelocities : OnEnd(p, v[1], v[2])
    \/ \E p \in Pagers : OnFinalize(p)
    \/ \E p \in Pagers : SpringStep(p)

SpecEnd == InitEnd /\ [][NextEnd]_vars

\* One horizontal pager over pages 0..2, dragged a page either way and
\* released with or without a fling.  The UI thread keeps running the frames
\* of a spring and the first run of the reaction, and the JS thread keeps
\* running the calls queued by runOnJS; touches come whenever the user likes.
SettlePts == {<<-300, 0>>, <<-50, 0>>, <<300, 0>>}
SettleVelocities == {<<-600, 0>>, <<0, 0>>, <<600, 0>>}
SettleBouncePcts == {<<0, 1>>, <<1, 1>>}

InitSettle ==
    \E b \in SettleBouncePcts :
        Mounted([p \in {1} |-> Props(FALSE, 0, 1, 0, 2, 1, b, FALSE)], 1)

NextSettle ==
    \/ \E p \in Pagers, size \in LayoutSizes : OnLayout(p, size)
    \/ \E p \in Pagers : ReactionFirstRun(p)
    \/ \E p \in Pagers : OnPageChangeInternal(p)
    \/ \E p \in Pagers : OnBegin(p, 0, 0)
    \/ \E p \in Pagers, pt \in SettlePts : OnTouchesMove(p, pt[1], pt[2])
    \/ \E p \in Pagers : OnUpdate(p)
    \/ \E p \in Pagers, v \in SettleVelocities : OnEnd(p, v[1], v[2])
    \/ \E p \in Pagers : OnFinalize(p)
    \/ \E p \in Pagers : SpringStep(p)

FairSettle ==
    /\ WF_vars(SpringStep(1))
    /\ WF_vars(ReactionFirstRun(1))
    /\ WF_vars(OnPageChangeInternal(1))

SpecSettle == InitSettle /\ [][NextSettle]_vars /\ FairSettle

--------------------------------------------------------------------------
(* Properties *)

\* The steps of the handlers, told by the recognizer's state
UpdateStep(p) == phase[p] = "moved" /\ phase'[p] = "active"
EndStep(p) == phase[p] \in {"active", "failedActive"} /\ phase'[p] = "ended"
TouchesMoveStep(p) ==
    /\ phase[p] \in {"began", "moved", "active"}
    /\ \/ phase'[p] \in {"failed", "failedActive"}
       \/ phase'[p] = "moved" /\ (phase[p] # "moved" \/ curTouch'[p] # curTouch[p])
CommitStep(p) ==
    /\ jsQueue[p] # <<>>
    /\ jsQueue'[p] = Tail(jsQueue[p])

IsActive(q) == PagerId(q) \in Range(ActivePagersOf(q))

\* some active pager of p's orientation is nested deeper than p
DeeperActive(p) ==
    \E q \in Pagers : /\ IsActive(q)
                      /\ props[q].registry = props[p].registry
                      /\ props[q].vertical = props[p].vertical
                      /\ props[q].nestingDepth > props[p].nestingDepth

\* C1: a pager is locked iff the active set is non-empty and some active pager
\* of its orientation is nested deeper.  With a horizontal depth-0 pager and a
\* vertical depth-1 pager both active neither is locked; with two horizontal
\* pagers of depths 0 and 1 both active, only the depth-0 pager is locked.
C1_LockedIffDeeperActive ==
    /\ \A p \in Pagers :
          IsGestureLocked(p) <=> (Len(ActivePagersOf(p)) > 0 /\ DeeperActive(p))
    /\ (IsActive(1) /\ IsActive(2) /\ props[2].vertical)
          => (~IsGestureLocked(1) /\ ~IsGestureLocked(2))
    /\ (IsActive(1) /\ IsActive(2) /\ ~props[2].vertical)
          => (IsGestureLocked(1) /\ ~IsGestureLocked(2))

C1_BothHorizontalActive ==
    /\ IsActive(1) /\ IsActive(2) /\ ~props[2].vertical
    /\ IsGestureLocked(1)

\* C2: while a touch is delivered to two nested pagers of one orientation
\* (both have begun, both are in range and enabled), no Update of the
\* shallower pager changes its translate.
C2_OnlyDeeperUpdateWrites ==
    [][\A p, q \in Pagers :
          ( /\ props[p].vertical = props[q].vertical
            /\ props[q].nestingDepth = props[p].nestingDepth + 1
            /\ phase[p] # "idle" /\ phase[q] # "idle"
            /\ ~IsMinIndex(p) /\ ~IsMaxIndex(p) /\ ~IsMinIndex(q) /\ ~IsMaxIndex(q)
            /\ ~gesturesDisabled[p] /\ ~gesturesDisabled[q]
            /\ UpdateStep(p) )
          => translate'[p] = translate[p]]_vars

\* the candidate of the Update that is being delivered, and the translate of
\* the range boundary it lies beyond
RawVal(p) == startTranslate[p] + Primary(p, EvtTranslation(p))
BoundaryTranslate(p) ==
    IF props[p].initialIndex * pageSize[p] - RawVal(p) < props[p].minIndex * pageSize[p]
    THEN (props[p].initialIndex - props[p].minIndex) * pageSize[p]
    ELSE (props[p].initialIndex - props[p].maxIndex) * pageSize[p]

\* the Update being delivered writes translate (not locked, not cross-axis)
WritingUpdateStep(p) ==
    UpdateStep(p) /\ ~(Len(ActivePagersOf(p)) > 0 /\ DeeperActive(p)) /\ ~UpdateCrossAxis(p)

\* C3: with bouncePct = 0 and a known page size, a touch-move that goes
\* outward while the committed index is at that edge fails the recognizer,
\* and no Update writes a translate whose page position is outside
\* [minIndex, maxIndex].
C3_NoBounceNeverPastEdge ==
    [][\A p \in Pagers :
          (props[p].bouncePct[1] = 0 /\ pageSize[p] > 0) =>
             /\ ( /\ TouchesMoveStep(p)
                  /\ LET d == Primary(p, curTouch'[p]) - Primary(p, initTouch[p])
                     IN  \/ curIndex[p] <= props[p].minIndex /\ d > 0
                         \/ curIndex[p] >= props[p].maxIndex /\ d < 0 )
                => phase'[p] \in {"failed", "failedActive"}
             /\ UpdateStep(p) => PageInBounds(p, translate'[p])]_vars

\* an Update has clamped a candidate beyond the range onto the boundary
C3_UpdateClamped ==
    \E p \in Pagers :
        /\ props[p].bouncePct[1] = 0
        /\ phase[p] = "active"
        /\ ~UpdateCrossAxis(p)
        /\ ~PageInBounds(p, RawVal(p))
        /\ translate[p] = BoundaryTranslate(p)

\* C4: with b > 0 an Update whose candidate is out of range writes
\* rawTranslate - overflow * pageSize + overflow * b * pageSize; for an
\* overflow of one page the overshoot is at most b * pageSize; the overshoot
\* never reaches one full page size.
C4_BounceBelowOnePage ==
    [][\A p \in Pagers :
          ( /\ props[p].bouncePct[1] > 0
            /\ WritingUpdateStep(p)
            /\ ~PageInBounds(p, RawVal(p)) )
          => LET num == props[p].bouncePct[1]
                 den == props[p].bouncePct[2]
                 overflow == RawVal(p) - BoundaryTranslate(p)
                 overshoot == translate'[p] - BoundaryTranslate(p)
             IN  /\ overshoot * den = overflow * num
                 /\ Abs(overflow) = pageSize[p] => Abs(overshoot) * den <= num * pageSize[p]
                 /\ Abs(overshoot) < pageSize[p]]_vars

\* C5: the committed index stays within [minIndex, maxIndex], and only the
\* commit/notify loop changes it.
C5_CommittedIndexInBounds ==
    [][\A p \in Pagers :
          /\ props[p].minIndex <= curIndex'[p] /\ curIndex'[p] <= props[p].maxIndex
          /\ curIndex'[p] # curIndex[p]
                => (CommitStep(p) /\ curIndex'[p] = Head(jsQueue[p]))]_vars

\* C8: every call of onPageChange carries an integer that differs from the
\* committed index in force just before it (none is made at mount for the
\* initial index), and no two calls in a row carry the same value.
C8_CallbackOnlyOnChange ==
    \A p \in Pagers :
        \A i \in 1..Len(cbLog[p]) :
            /\ cbLog[p][i][1] # cbLog[p][i][2]
            /\ i > 1 => cbLog[p][i][1] # cbLog[p][i - 1][1]

\* the direction-signed half page the claim adds for a fling, times 2
ClaimedNudge2(p) ==
    LET v == Primary(p, endVelocity'[p])
        locked == Len(ActivePagersOf(p)) > 0 /\ DeeperActive(p)
        crossAxis == Abs(Cross(p, EvtTranslation(p))) > Abs(Primary(p, EvtTranslation(p)))
        fling == ~locked /\ ~crossAxis /\ Abs(v) > props[p].flingVelocity
    IN  IF ~fling THEN 0 ELSE IF v < 0 THEN -pageSize[p] ELSE pageSize[p]

ClampIndex(p, page) ==
    IF page < props[p].minIndex THEN props[p].minIndex
    ELSE IF page > props[p].maxIndex THEN props[p].maxIndex ELSE page

Ascending(first, last) == [i \in 1..(last - first + 1) |-> first + i - 1]

\* the values onPageChange was called with, then those of the calls not yet run
Delivered(p) == [i \in 1..Len(cbLog[p]) |-> cbLog[p][i][1]]
Fired(p) == Delivered(p) \o jsQueue[p]

\* C7: while translate is driven from the initial page towards page 5 in steps
\* of less than a page, the calls fired after the one made at mount are those
\* for the pages crossed, ascending, each exactly once; onPageChange runs them
\* in the order they were fired, so a sweep from page 0 to page 5 delivers
\* 1, 2, 3, 4, 5.
C7_SweepFiresEachPageOnce ==
    [][\A p \in Pagers :
          /\ (reactPrev'[p] # Null) =>
                Fired(p)' = Ascending(props[p].initialIndex,
                                      RoundedPage(p, translate[p])')
          /\ CommitStep(p) => Delivered(p)' = Append(Delivered(p), Head(jsQueue[p]))
          /\ ( /\ props[p].initialIndex = 0
               /\ translate'[p] = -5 * pageSize'[p] /\ pageSize'[p] > 0
               /\ jsQueue'[p] = <<>> )
             => Tail(Delivered(p)') = <<1, 2, 3, 4, 5>>]_vars

\* the sweep from page 0 has arrived on page 5 and all calls have run
C7_SweptToPage5 ==
    /\ props[1].initialIndex = 0
    /\ pageSize[1] = 300
    /\ translate[1] = -1500
    /\ jsQueue[1] = <<>>
    /\ Delivered(1) = <<0, 1, 2, 3, 4, 5>>

\* the step is the continuation of a setPage call; a call is being made
ResumeStep(p) == lastResumed'[p] # <<>>
IssueStep(p) == Len(pendingSetPage'[p]) = Len(pendingSetPage[p]) + 1
Beyond(p, index) == index < props[p].minIndex \/ index > props[p].maxIndex

\* C9: a request for a page outside [minIndex, maxIndex] (setPage(10) with
\* maxIndex = 3, incrementPage at maxIndex, decrementPage at minIndex),
\* animated or not, leaves translate, the animation and the committed index
\* as they are.
C9_OutOfRangeRequestIsNoOp ==
    [][\A p \in Pagers :
          /\ IssueStep(p) =>
                LET c == pendingSetPage'[p][Len(pendingSetPage'[p])]
                IN  /\ (c.via = "incrementPage" /\ curIndex[p] = props[p].maxIndex)
                          => Beyond(p, c.index)
                    /\ (c.via = "decrementPage" /\ curIndex[p] = props[p].minIndex)
                          => Beyond(p, c.index)
                    /\ translate'[p] = translate[p] /\ anim'[p] = anim[p]
                    /\ curIndex'[p] = curIndex[p]
          /\ (ResumeStep(p) /\ Beyond(p, lastResumed'[p][1].index)) =>
                /\ translate'[p] = translate[p] /\ anim'[p] = anim[p]
                /\ curIndex'[p] = curIndex[p] /\ jsQueue'[p] = jsQueue[p]]_vars

\* setPage(10) has resumed on a pager with maxIndex = 3 that rests on page 3
C9_SetPage10Resumed ==
    /\ props[1].maxIndex = 3
    /\ lastResumed[1] # <<>>
    /\ lastResumed[1][1].index = 10
    /\ translate[1] = -300 /\ curIndex[1] = 3 /\ anim[1] = NoAnim

\* C10: before the first layout a setPage call changes nothing and no
\* continuation runs; after it the continuations run oldest call first; an
\* in-range call that is not animated sets translate to
\* (initialIndex - i) * pageSize, where the page position is i, and an animated
\* one starts a spring towards it.
C10_SetPageAwaitsLayout ==
    [][\A p \in Pagers :
          /\ ~layoutResolved[p] =>
                /\ translate'[p] = translate[p] /\ anim'[p] = anim[p]
                /\ ~ResumeStep(p)
                /\ pendingSetPage'[p] = pendingSetPage[p] \/ IssueStep(p)
          /\ ResumeStep(p) =>
                LET c == lastResumed'[p][1]
                    target == (props[p].initialIndex - c.index) * pageSize[p]
                IN  /\ layoutResolved[p]
                    /\ c = pendingSetPage[p][1]
                    /\ pendingSetPage'[p] = Tail(pendingSetPage[p])
                    /\ (~Beyond(p, c.index) /\ ~c.animated) =>
                          /\ translate'[p] = target /\ anim'[p] = NoAnim
                          /\ ScaledPage(p, translate'[p]) = c.index * pageSize[p]
                          /\ RoundedPage(p, translate'[p]) = c.index
                    /\ (~Beyond(p, c.index) /\ c.animated) =>
                          /\ anim'[p] = Spring(target) /\ translate'[p] = translate[p]]_vars

\* a setPage(3) made before the layout has taken effect, ahead of a later call
\* that was also made before the layout
C10_EarlyCallTookEffect ==
    /\ lastResumed[1] # <<>>
    /\ lastResumed[1][1].beforeLayout /\ ~lastResumed[1][1].animated
    /\ lastResumed[1][1].index = 3
    /\ translate[1] = -300
    /\ pendingSetPage[1] # <<>> /\ pendingSetPage[1][1].beforeLayout

\* the outermost pager p is rendered in, and a callback of p's gesture runs
RECURSIVE RootOf(_)
RootOf(p) == IF props[p].parent = 0 THEN p ELSE RootOf(props[p].parent)
GestureStep(p) == phase'[p] # phase[p] \/ curTouch'[p] # curTouch[p]

\* C11: a pager without a parent has depth 0 and a registry of its own; a
\* nested pager has its parent's registry and its parent's depth + 1; pagers
\* of different trees have different registries, and a gesture callback of a
\* pager changes neither the active set nor the lock of a pager of another
\* tree.
C11_RegistryPerTree ==
    [][\A p, q \in Pagers :
          /\ props[p].parent = 0 =>
                props[p].nestingDepth = 0 /\ props[p].registry \notin
                    {props[r].registry : r \in {r \in Pagers : RootOf(r) # p}}
          /\ props[p].parent # 0 =>
                /\ props[p].registry = props[props[p].parent].registry
                /\ props[p].nestingDepth = props[props[p].parent].nestingDepth + 1
          /\ (RootOf(p) # RootOf(q) /\ GestureStep(p)) =>
                /\ ActivePagersOf(q)' = ActivePagersOf(q)
                /\ IsGestureLocked(q)' = IsGestureLocked(q)]_vars

\* pagers 2 and 3 are active, pager 1 is locked by pager 2, and pager 3, of
\* the other tree, is not locked although pager 2 is deeper
C11_BothTreesActive ==
    /\ IsActive(2) /\ IsActive(3)
    /\ IsGestureLocked(1) /\ ~IsGestureLocked(3)
    /\ ActivePagersOf(3) = <<PagerId(3)>>
    /\ ActivePagersOf(1) = <<PagerId(2)>>
    /\ phase[1] = "failed"

\* the indices of the mounted pages, and of those flagged isActive
Window(p) == {RenderedPages(props[p], curIndex[p])[j].index :
                 j \in 1..Len(RenderedPages(props[p], curIndex[p]))}
ActivePages(p) ==
    {RenderedPages(props[p], curIndex[p])[j].index :
        j \in {j \in 1..Len(RenderedPages(props[p], curIndex[p])) :
                  RenderedPages(props[p], curIndex[p])[j].isActive}}

\* C12: with committed index c and pageBuffer r >= 0 the mounted indices are
\* exactly c - r .. c + r, one page each (2r + 1 pages), c is the only page
\* flagged isActive, and a step that changes neither c nor r leaves the
\* window as it is.
C12_WindowAroundCommitted ==
    [][\A p \in Pagers :
          LET c == curIndex[p]
              r == props[p].pageBuffer
          IN  /\ Window(p) = (c - r)..(c + r)
              /\ Len(PageIndices(props[p], c)) = 2 * r + 1
              /\ Cardinality(Window(p)) = 2 * r + 1
              /\ ActivePages(p) = {c}
              /\ (curIndex'[p] = c /\ props'[p].pageBuffer = r)
                    => PageIndices(props[p], c)' = PageIndices(props[p], c)]_vars

\* the committed index has moved to 3 and, with pageBuffer 2, pages 1..5 are
\* mounted
C12_WindowMoved ==
    /\ props[1].pageBuffer = 2 /\ curIndex[1] = 3 /\ translate[1] = -600
    /\ Window(1) = 1..5
    /\ PageIndices(props[1], curIndex[1]) = <<5, 4, 3, 2, 1>>

\* C13: with neither PageComponent nor renderPage the construction of a page
\* throws, so that the pager is never mounted and nothing happens; with both,
\* nothing is thrown, a warning is logged, every page shows PageComponent,
\* and the pager is on screen.
C13_PageSourceMisuse ==
    [][\A p \in Pagers :
          LET pages == RenderedPages(props[p], curIndex[p])
              both == props[p].PageComponent /\ props[p].renderPage
              neither == ~props[p].PageComponent /\ ~props[p].renderPage
          IN  /\ neither =>
                    /\ \A j \in 1..Len(pages) : pages[j].thrown
                    /\ ~Constructed(p) /\ PagersOf(p) = <<>>
                    /\ vars' = vars
              /\ both =>
                    /\ \A j \in 1..Len(pages) :
                          /\ ~pages[j].thrown /\ pages[j].warned
                          /\ pages[j].content = "PageComponent"
                    /\ Constructed(p) /\ PagersOf(p) = <<PagerId(p)>>
              /\ (~both /\ ~neither) =>
                    \A j \in 1..Len(pages) : ~pages[j].thrown /\ ~pages[j].warned]_vars

\* a pager given both sources was laid out and has committed another page
C13_BothSuppliedRenders ==
    /\ props[1].PageComponent /\ props[1].renderPage
    /\ layoutResolved[1] /\ curIndex[1] = 2
    /\ RenderedPages(props[1], curIndex[1])[1].warned

\* the step is the Finalize of p's gesture
FinalizeStep(p) == phase[p] # "idle" /\ phase'[p] = "idle"

\* C14: right after its Finalize, whatever went before (an early fail
\* included), a pager is not in the active set; a pager in the active set has
\* begun a gesture that is not finalized yet; and when no gesture is in
\* progress the active set is empty and no pager is locked.
C14_FinalizeLeavesActiveSet ==
    [][\A p \in Pagers :
          /\ FinalizeStep(p) => ~IsActive(p)'
          /\ IsActive(p) => phase[p] # "idle"
          /\ (\A q \in Pagers : phase[q] = "idle") =>
                /\ ActivePagersOf(p) = <<>>
                /\ ~IsGestureLocked(p)]_vars

\* both pagers have dragged (each was in the active set when its Update
\* wrote), both gestures are finalized, and the active set is empty again
C14_AllFinalized ==
    /\ \A q \in Pagers : phase[q] = "idle" /\ translate[q] = -50 /\ anim[q] = NoAnim
    /\ \A q \in Pagers : ActivePagersOf(q) = <<>>

\* C15: every member of a registry's activePagers is a member of its pagers
\* (allPagers): also a pager that is unmounted during its gesture leaves the
\* active set.
C15_ActiveImpliesMounted ==
    \A r \in DOMAIN activePagers : Range(activePagers[r]) \subseteq Range(pagers[r])

\* how often id occurs in the sequence s
Occurrences(s, id) == Cardinality({i \in 1..Len(s) : s[i] = id})

\* C16: no pager id occurs twice in activePagers, whatever the interleaving of
\* Begin, touch-move and Finalize callbacks; no id occurs twice in pagers, and
\* running the registration effect of a registered pager once more leaves one
\* entry for it.
C16_NoDuplicates ==
    /\ \A r \in DOMAIN activePagers, p \in Pagers :
          /\ Occurrences(activePagers[r], PagerId(p)) <= 1
          /\ Occurrences(pagers[r], PagerId(p)) <= 1
    /\ \A p \in Pagers :
          IsMounted(p) =>
             /\ RegisterEffect(PagersOf(p), PagerId(p)) = PagersOf(p)
             /\ Occurrences(RegisterEffect(PagersOf(p), PagerId(p)), PagerId(p)) = 1

\* both pagers are in the active set, each once, the outer one has received
\* a further touch-move since it entered, and the outer pager's registration
\* effect has run again (it is now the last entry of pagers)
C16_BothActiveOnce ==
    /\ ActivePagersOf(1) = <<PagerId(1), PagerId(2)>>
    /\ PagersOf(1) = <<PagerId(2), PagerId(1)>>
    /\ phase[1] = "failed" /\ phase[2] = "moved"

\* the step is the Begin of p's gesture
BeginStep(p) == phase[p] = "idle" /\ phase'[p] = "began"

\* C17: Begin stores translate as the start translate and the touch position
\* on both axes, and the pager is in the active set right after it unless its
\* committed index is at an edge (<= minIndex or >= maxIndex) with bounce off.
C17_BeginRegisters ==
    [][\A p \in Pagers :
          BeginStep(p) =>
             /\ startTranslate'[p] = translate[p]
             /\ initTouch'[p] = curTouch'[p]
             /\ ( \/ (props[p].minIndex < curIndex[p] /\ curIndex[p] < props[p].maxIndex)
                  \/ props[p].bouncePct[1] > 0 )
                => IsActive(p)']_vars

\* the conditions under which the claim has a touch-move fail, for the sample
\* at curTouch'
MustFail(p) ==
    LET d == Primary(p, curTouch'[p]) - Primary(p, initTouch[p])
        pastEdge == \/ curIndex[p] <= props[p].minIndex /\ d > 0
                    \/ curIndex[p] >= props[p].maxIndex /\ d < 0
    IN  \/ props[p].bouncePct[1] = 0 /\ pastEdge
        \/ Len(ActivePagersOf(p)) > 0 /\ DeeperActive(p)
        \/ gesturesDisabled[p]

\* C18: a touch-move that must fail (outward past an edge with bounce off,
\* locked, or gestures disabled) fails the recognizer and leaves the pager
\* out of the active set, with or without a debugTag; any other touch-move
\* leaves the pager in the active set.
C18_TouchMoveFailsAndLeaves ==
    [][\A p \in Pagers :
          TouchesMoveStep(p) =>
             IF MustFail(p)
             THEN phase'[p] \in {"failed", "failedActive"} /\ ~IsActive(p)'
             ELSE phase'[p] = "moved" /\ IsActive(p)']_vars

\* C19: an Update of a locked pager, or one whose cross-axis movement is more
\* than 10 units and more than the movement on the pager's axis, changes
\* neither translate nor the start translate nor the active set and does not
\* fail the recognizer; any other Update whose candidate
\* startTranslate + primaryDelta is in range writes that candidate.
C19_SuppressedUpdate ==
    [][\A p \in Pagers :
          UpdateStep(p) =>
             LET primaryDelta == Primary(p, EvtTranslation(p))
                 crossDelta == Cross(p, EvtTranslation(p))
                 locked == Len(ActivePagersOf(p)) > 0 /\ DeeperActive(p)
                 foreign == Abs(crossDelta) > 10 /\ Abs(crossDelta) > Abs(primaryDelta)
                 candidate == startTranslate[p] + primaryDelta
             IN  IF locked \/ foreign
                 THEN /\ translate'[p] = translate[p]
                      /\ startTranslate' = startTranslate
                      /\ activePagers' = activePagers
                      /\ phase'[p] = "active"
                 ELSE PageInBounds(p, candidate) => translate'[p] = candidate]_vars

\* the locked outer pager has had an Update along its axis and the inner
\* pager one that went mostly across its axis; neither moved its translate
\* and both recognizers are still active
C19_LockedAndForeignUpdates ==
    /\ phase[1] = "active" /\ IsGestureLocked(1) /\ IsActive(1)
    /\ curTouch[1] = <<-20, 0>> /\ translate[1] = startTranslate[1]
    /\ phase[2] = "active" /\ IsActive(2)
    /\ curTouch[2] = <<-4, 60>> /\ translate[2] = startTranslate[2]

\* C20: every End starts a spring towards -(page - initialIndex) * pageSize
\* for an integer page in [minIndex, maxIndex], with a configuration that has
\* the pager's animationConfig entries and, for every other key, the default
\* entry; DEFAULT_ANIMATION_CONFIG is as the module created it afterwards.
C20_EndSettles ==
    [][\A p \in Pagers :
          EndStep(p) =>
             LET own == props[p].animationConfig
             IN  /\ \E page \in props[p].minIndex..props[p].maxIndex :
                       anim'[p][1] = -(page - props[p].initialIndex) * pageSize[p]
                 /\ animCfg'[p] =
                       own \cup {kv \in DEFAULT_ANIMATION_CONFIG :
                                    \A o \in own : o[1] # kv[1]}
                 /\ defaultAnimationConfig' = DEFAULT_ANIMATION_CONFIG]_vars

\* the outer pager was released while locked and springs with the defaults;
\* the inner pager, resting on page 0, was flung further out: its target is
\* clamped to page 0 and its spring runs with the overridden damping
C20_ClampedWithOwnConfig ==
    /\ phase[1] = "ended" /\ IsGestureLocked(1)
    /\ <<"damping", "20">> \in animCfg[1]
    /\ phase[2] = "ended" /\ endVelocity[2] = <<600, 0>>
    /\ translate[2] = PageTranslate(2, 0) /\ anim[2] # NoAnim
    /\ anim[2][1] = PageTranslate(2, 0)
    /\ <<"damping", "50">> \in animCfg[2] /\ <<"mass", "0.2">> \in animCfg[2]
    /\ defaultAnimationConfig = DEFAULT_ANIMATION_CONFIG

\* the Update of p is one that .onUpdate returns from without a write
Suppressed(p) ==
    \/ Len(ActivePagersOf(p)) > 0 /\ DeeperActive(p)
    \/ LET primaryDelta == Primary(p, EvtTranslation(p))
           crossDelta == Cross(p, EvtTranslation(p))
       IN  Abs(crossDelta) > 10 /\ Abs(crossDelta) > Abs(primaryDelta)

\* the Update of p puts translate on startTranslate + delta with the edge
\* policy applied, and no animation is left to move translate
Overrides(p) ==
    /\ translate'[p] =
          UpdatedTranslate(p, startTranslate[p] + Primary(p, EvtTranslation(p)))
    /\ anim'[p] = NoAnim

\* C21 (as amended): a Begin is taken while a settle animation runs and reads
\* the current translate as the start translate; an Update of that drag that
\* is not suppressed (pager not locked, sample not cross-axis) puts translate
\* on start + delta with the edge policy applied and ends the animation, and
\* while the recognizer stays active translate is not moved any more.
C21_DragOverridesSettle ==
    [][\A p \in Pagers :
          /\ BeginStep(p) => startTranslate'[p] = translate[p]
          /\ (UpdateStep(p) /\ ~Suppressed(p)) => Overrides(p)
          /\ (phase[p] = "active" /\ phase'[p] = "active" /\ ~Suppressed(p))
                => translate'[p] = translate[p]]_vars

\* C21 as stated: every Update of a drag begun during a settle that is still
\* running overrides the animated position.
C21_EveryUpdateOverrides ==
    [][\A p \in Pagers :
          (UpdateStep(p) /\ anim[p] # NoAnim) => Overrides(p)]_vars

\* a drag began while the settle after a release at -50 was running (the
\* start translate is off the page grid) and its Update has put translate on
\* start + delta, with no animation left
C21_SettleInterrupted ==
    /\ phase[1] = "active" /\ startTranslate[1] = -50
    /\ curTouch[1] = <<-50, 0>> /\ translate[1] = -100
    /\ anim[1] = NoAnim

\* End has just chosen the settle target t for pager p
EndedTowards(p, t) ==
    phase[p] = "ended" /\ anim[p] = Spring(PageTranslate(p, t))

\* pager p rests on page t: translate, page position, committed index, and
\* t is rendered as the active page
Settled(p, t) ==
    /\ translate[p] = -(t - props[p].initialIndex) * pageSize[p]
    /\ ScaledPage(p, translate[p]) = t * pageSize[p]
    /\ curIndex[p] = t
    /\ t \in Window(p) /\ ActivePages(p) = {t}

\* C22: after an End with settle target t on a laid-out pager, either a new
\* gesture begins or the pager eventually rests on t for good: translate is
\* -(t - initialIndex) * pageSize, the page position and the committed index
\* are t, and t is rendered as the active page.
C22_SettlesOnTarget ==
    \A t \in 0..2 :
        [](EndedTowards(1, t) => (<>[]Settled(1, t) \/ <>(phase[1] = "began")))

\* the pager was dragged by 50 from page 1 and flung: it rests on page 2,
\* committed and rendered as the active page, with nothing left to run
C22_RestsOnFlingTarget ==
    /\ phase[1] = "ended" /\ endVelocity[1] = <<-600, 0>>
    /\ startTranslate[1] = 0 /\ curTouch[1] = <<-50, 0>>
    /\ anim[1] = NoAnim /\ jsQueue[1] = <<>>
    /\ Settled(1, 2)

====
